---- MODULE Spec2Model ----
(***************************************************************************)
(* Model of the repayment calculator: borrow/loan.py (class loan, the      *)
(* orchestrator), borrow/mortgage.py (class mortgage, the instrument       *)
(* simulator) and borrow/common.py (percent / sign helpers).               *)
(*                                                                         *)
(* Numbers.  Every amount the simulation handles is a Python float (the    *)
(* first operation on the balance, outstanding -= downpayment, already     *)
(* has a float operand).  A float is modelled as an integer count of the   *)
(* quantum 2^-FracBits whose magnitude carries at most MantBits            *)
(* significant bits; every arithmetic operation rounds its exact result to *)
(* the nearest such number, ties to even, as IEEE 754 does.  CPython's     *)
(* float has 53 significant bits: MantBits scales that down.               *)
(*                                                                         *)
(* Dates.  A datetime is a record [y, m, d] (the time of day is always     *)
(* midnight: CalculateRepayments.py parses '%d-%m-%Y').  relativedelta and *)
(* rrule are modelled by what dateutil computes: adding months or years    *)
(* clamps the day to the length of the target month, and a MONTHLY or      *)
(* YEARLY rule skips the months or years that lack the start's day.        *)
(***************************************************************************)
EXTENDS Integers, Sequences, FiniteSets, TLC

\* ------------------------------------------------------------------ bounds
\* Significant bits of a modelled float.
MantBits == 6
\* Longest instrument list a loan is given.
MaxMortgages == 2
\* Longest instrument term, in years.
MaxYears == 2

\* Fractional bits of the float quantum (fixed by the model's number format).
FracBits == 6
\* Months of a year: the MONTHLY rule over relativedelta(years=...).
MonthsPerYear == 12
\* sanitize_percent: float(value[:-1]) / 100.
PercentBase == 100

\* --------------------------------------------------------- float arithmetic
RECURSIVE Pow2(_)
Pow2(n) == IF n <= 0 THEN 1 ELSE 2 * Pow2(n - 1)

RECURSIVE BitLen(_)
BitLen(n) == IF n <= 0 THEN 0 ELSE 1 + BitLen(n \div 2)

Abs(x) == IF x < 0 THEN -x ELSE x

Sgn(x) == IF x < 0 THEN -1 ELSE 1

Unit == Pow2(FracBits)

\* num / den (num >= 0, den > 0) rounded to the nearest integer, ties to even.
RoundHalfEven(num, den) ==
    LET q == num \div den
        r == num % den
    IN  IF 2 * r > den \/ (2 * r = den /\ q % 2 = 1) THEN q + 1 ELSE q

\* The float nearest to num / den quanta: at most MantBits significant bits.
RoundFloat(num, den) ==
    LET a    == Abs(num)
        len  == BitLen(a \div den)
        step == IF len > MantBits THEN Pow2(len - MantBits) ELSE 1
    IN  Sgn(num) * RoundHalfEven(a, den * step) * step

\* int -> float conversion of an operand (Python converts before operating).
ToFloat(n) == RoundFloat(n * Unit, 1)

\* The float a decimal literal with two places denotes, given in hundredths
\* (700.55 is 70055): the nearest float, as yaml.safe_load yields it.
FromDecimal(hundredths) == RoundFloat(hundredths * Unit, 100)

FAdd(a, b) == RoundFloat(a + b, 1)

FSub(a, b) == RoundFloat(a - b, 1)

FMul(a, b) == RoundFloat(a * b, Unit)

FDiv(a, b) == RoundFloat(a * Unit, b)

\* -------------------------------------------------------------------- dates
IsLeap(y) == y % 4 = 0 /\ (y % 100 # 0 \/ y % 400 = 0)

DaysInMonth(y, m) ==
    IF m = 2 THEN (IF IsLeap(y) THEN 29 ELSE 28)
    ELSE IF m \in {4, 6, 9, 11} THEN 30 ELSE 31

Min(a, b) == IF a < b THEN a ELSE b

Date(y, m, d) == [y |-> y, m |-> m, d |-> d]

\* An unset date: mortgage.start before repay ("N/A"), loan.end before payoff,
\* repay's loop variable before the first iteration.
NoDate == Date(0, 0, 0)

DateLT(a, b) ==
    \/ a.y < b.y
    \/ a.y = b.y /\ a.m < b.m
    \/ a.y = b.y /\ a.m = b.m /\ a.d < b.d

\* Months since year 0 of a date's month.
MonthIndex(dt) == dt.y * MonthsPerYear + (dt.m - 1)

\* dt + relativedelta(months=n): the day is clamped to the target month.
AddMonths(dt, n) ==
    LET t == MonthIndex(dt) + n
        y == t \div MonthsPerYear
        m == (t % MonthsPerYear) + 1
    IN  Date(y, m, Min(dt.d, DaysInMonth(y, m)))

\* dt + relativedelta(years=n).
AddYears(dt, n) == Date(dt.y + n, dt.m, Min(dt.d, DaysInMonth(dt.y + n, dt.m)))

\* rrule(freq=MONTHLY, dtstart, until): the dtstart.day of every month from
\* dtstart's on that has such a day, up to until inclusive.  k counts months.
RECURSIVE MonthlyFrom(_, _, _)
MonthlyFrom(dtstart, until, k) ==
    LET t == MonthIndex(dtstart) + k
        y == t \div MonthsPerYear
        m == (t % MonthsPerYear) + 1
        c == Date(y, m, dtstart.d)
    IN  IF t > MonthIndex(until) THEN <<>>
        ELSE IF dtstart.d > DaysInMonth(y, m) THEN MonthlyFrom(dtstart, until, k + 1)
        ELSE IF DateLT(until, c) THEN <<>>
        ELSE <<c>> \o MonthlyFrom(dtstart, until, k + 1)

MonthlyRule(dtstart, until) == MonthlyFrom(dtstart, until, 0)

\* rrule(freq=YEARLY, dtstart, count): dtstart's month and day in the first
\* count years from dtstart's on that have that day; a count of 0 or less
\* yields no date (dateutil 2.7 and later).
RECURSIVE YearlyFrom(_, _, _)
YearlyFrom(dtstart, count, k) ==
    IF count <= 0 THEN {}
    ELSE IF dtstart.d > DaysInMonth(dtstart.y + k, dtstart.m)
         THEN YearlyFrom(dtstart, count, k + 1)
         ELSE {Date(dtstart.y + k, dtstart.m, dtstart.d)}
              \cup YearlyFrom(dtstart, count - 1, k + 1)

YearlyRule(dtstart, count) == YearlyFrom(dtstart, count, 0)

\* relativedelta(dt1, dt2) for dt1 >= dt2: the whole months between them,
\* lowered until dt2 + months does not pass dt1, as (years, months).
RECURSIVE WholeMonths(_, _, _)
WholeMonths(dt1, dt2, months) ==
    IF DateLT(dt1, AddMonths(dt2, months))
    THEN WholeMonths(dt1, dt2, months - 1)
    ELSE months

RelativeDelta(dt1, dt2) ==
    LET months == WholeMonths(dt1, dt2, MonthIndex(dt1) - MonthIndex(dt2))
    IN  [years |-> months \div MonthsPerYear, months |-> months % MonthsPerYear]

\* ------------------------------------------------------------ common.py
\* A NumStr value: the string "<val>%" (pct) or the bare number val.
Pct(n) == [pct |-> TRUE, val |-> n]

Num(n) == [pct |-> FALSE, val |-> n]

\* sanitize_percent of a percent string: float(value[:-1]) / 100.
sanitize_percent(value) == FDiv(ToFloat(value.val), ToFloat(PercentBase))

\* sign_magnitude with the sign lost: every value counts as positive.
sign_magnitude_unsigned(value) ==
    <<1, [pct |-> value.pct, val |-> Abs(value.val)]>>

\* sign_magnitude: (sign, magnitude); a string loses its leading sign only.
sign_magnitude(value) ==
    <<Sgn(value.val), [pct |-> value.pct, val |-> Abs(value.val)]>>

\* ----------------------------------------------------------- mortgage.py
\* mortgage.__init__: the fields as given; start and amount are bound later.
mortgage(id, rate, duration, repayment, overpay, downpayment) ==
    [id |-> id, amount |-> "Unknown", rate |-> rate, repayment |-> repayment,
     overpay |-> overpay, duration |-> duration, downpayment |-> downpayment,
     start |-> NoDate]

\* repayment_duration running one month past the end of the term.
repayment_duration_long(self) ==
    MonthlyRule(AddMonths(self.start, 1),
                AddMonths(AddYears(self.start, self.duration), 1))

\* repayment_duration: monthly dates from a month after start to the end of
\* the term.
repayment_duration(self) ==
    MonthlyRule(AddMonths(self.start, 1), AddYears(self.start, self.duration))

\* calculate_interest: outstanding * (self.rate / 12).
calculate_interest(self, outstanding) ==
    FMul(outstanding, FDiv(self.rate, ToFloat(MonthsPerYear)))

\* calculate_downpayment: magnitude * sign, a percentage taken of outstanding.
calculate_downpayment(self, outstanding) ==
    LET sm        == sign_magnitude(self.downpayment)
        magnitude == IF sm[2].pct
                     THEN FMul(sanitize_percent(sm[2]), outstanding)
                     ELSE ToFloat(sm[2].val)
    IN  magnitude * sm[1]

\* The dates calculate_overpay accepts: the yearly rule from the first
\* anniversary, duration - 1 dates long.
overpay_dates(self) == YearlyRule(AddYears(self.start, 1), self.duration - 1)

\* calculate_overpay: on those dates outstanding * overpay, capped at
\* outstanding; otherwise 0.
calculate_overpay(self, date, outstanding) ==
    IF date \in overpay_dates(self)
    THEN LET lump == FMul(outstanding, self.overpay)
         IN  IF outstanding > lump THEN lump ELSE outstanding
    ELSE 0

\* The nominal part of calculate_repayment.
nominal_repayment(self, outstanding) ==
    IF outstanding > self.repayment THEN self.repayment ELSE outstanding

\* calculate_repayment: the nominal repayment plus, with an overpay set, the
\* overpayment on what the nominal repayment leaves.
calculate_repayment(self, date, outstanding) ==
    LET repayment == nominal_repayment(self, outstanding)
    IN  IF self.overpay # 0
        THEN FAdd(repayment,
                  calculate_overpay(self, date, FSub(outstanding, repayment)))
        ELSE repayment

\* repay(), lines 136-137: the downpayment comes off before any interest.
apply_downpayment(outstanding, dpay) == FSub(outstanding, dpay)

\* repay(), line 175: interest, repayments with the downpayment, and the
\* loop variable as the end date.
repay_result(interest, repaid, dpay, loopdate) ==
    [interest |-> interest, repaid |-> FAdd(repaid, dpay), end |-> loopdate]

\* ----------------------------------------------------------------- state
VARIABLES
    \* class loan
    amount, outstanding, cost, start, mortgages, end, duration,
    \* payoff(): where it stands, and its local start
    pc, cursor,
    \* the mortgage popped by payoff(), with the start and amount repay() binds
    m,
    \* repay(): its locals, the dates its for loop has still to take, and the
    \* loop variable
    balance, interests, repayments, downpayment, dates, date,
    \* history (not program state): the list as loaded, the ids repay() was
    \* invoked on, loan.outstanding after each of them, whether line 187 has
    \* seen outstanding <= 0, the last period
    \* of the running repay(), the date of its last repayment, its periods so
    \* far, what the last repay() was given and returned, and the simulation
    \* steps taken by this payoff()
    config, invoked, afters, seenPaid, event, lastRepaid, periods, call, ret,
    steps

loanVars == <<amount, outstanding, cost, start, mortgages, end, duration>>

repayVars == <<balance, interests, repayments, downpayment, dates, date>>

histVars ==
    <<config, invoked, afters, seenPaid, event, lastRepaid, periods, call, ret,
      steps>>

vars == <<loanVars, pc, cursor, m, repayVars, histVars>>

\* ------------------------------------------------------------- the inputs
\* One entry of the mortgage YAML; overpay and downpayment are optional.
\* rate and overpay are the n of an "n%" string, repayment is a decimal
\* literal in hundredths, downpayment a NumStr.
Entry(rate, years, repayment, overpay, dpay) ==
    [rate |-> rate, years |-> years, repayment |-> repayment,
     overpay |-> overpay, downpayment |-> dpay]

\* Plain schedules of one year.
PlainEntries ==
    {Entry(r, 1, p, <<>>, <<>>) : r \in {0, 12, 60}, p \in {200, 1000}}

\* Longer schedules, with and without a yearly overpayment.
LongEntries ==
    {Entry(12, y, po[1], po[2], <<>>) :
        y \in 2..MaxYears,
        po \in {<<200, <<>> >>, <<200, <<50>> >>, <<150, <<200>> >>}}

\* Downpayments: flat and percent, paid and released, and one larger than
\* the balance.
DownEntries ==
    {Entry(12, 1, 200, <<>>, <<d>>) :
        d \in {Num(5), Num(-5), Pct(10), Pct(-10), Num(60)}}

\* Entries the specification calls malformed: a term of zero years, a
\* negative repayment, a negative rate.
MalformedEntries ==
    {Entry(12, 0, 200, <<>>, <<>>), Entry(12, 1, -100, <<>>, <<>>),
     Entry(-12, 1, 200, <<>>, <<>>)}

Entries == PlainEntries \cup LongEntries \cup DownEntries \cup MalformedEntries

Malformed(e) == e.years <= 0 \/ e.repayment < 0 \/ e.rate < 0

Amounts == {40}

Starts == {Date(2019, 1, 15), Date(2019, 12, 31), Date(2020, 2, 29)}

\* ----------------------------------------------------------------- loan.py
\* load_mortgages: one mortgage per entry, in the file's order; rate and
\* overpay go through sanitize_percent, the defaults are 0.0.  The repayment
\* is the float yaml.safe_load read.
load_mortgages(file) ==
    [i \in 1..Len(file) |->
        mortgage(i,
                 sanitize_percent(Pct(file[i].rate)),
                 file[i].years,
                 FromDecimal(file[i].repayment),
                 IF file[i].overpay = <<>> THEN 0
                 ELSE sanitize_percent(Pct(file[i].overpay[1])),
                 IF file[i].downpayment = <<>> THEN Num(0)
                 ELSE file[i].downpayment[1])]

\* pop() in place of pop(0): the last mortgage of the list.
pop_mortgage_last(list) == list[Len(list)]

\* payoff(), line 169: self.mortgages.pop(0).
pop_mortgage(list) == Head(list)

\* The update with its operands swapped: interest is taken off, repayments
\* are added.
update_outstanding_swapped(owed, decrease, increase) ==
    FSub(owed, FSub(increase, decrease))

\* payoff(), line 175: self.outstanding -= (decrease - increase).
update_outstanding(owed, decrease, increase) ==
    FSub(owed, FSub(decrease, increase))

\* payoff(), line 176: self.cost += increase.
update_cost(sofar, increase) == FAdd(sofar, increase)

\* payoff(), line 187: the loop is left when not(self.outstanding > 0).
stop_repaying(owed) == ~(owed > 0)

\* Line 190 left out: the local start is never advanced.
next_start_stale(previous, current) == previous

\* payoff(), line 190: the next mortgage starts where this one ended.
next_start(previous, current) == current

NoEvent == [date |-> NoDate, lump |-> 0, remaining |-> 0, before |-> 0, after |-> 0]

NoCall == [id |-> 0, outstanding |-> 0, start |-> NoDate, entered |-> 0]

NoRet == [id |-> 0, interest |-> 0, repaid |-> 0, end |-> NoDate, balance |-> 0,
          lastRepaid |-> NoDate, periods |-> 0, broke |-> FALSE, before |-> 0]

\* loan.__init__: the state after construction.
Init ==
    \E a \in Amounts, s \in Starts, n \in 1..MaxMortgages :
      \E file \in [1..n -> Entries] :
        /\ amount = ToFloat(a)
        /\ outstanding = ToFloat(a)
        /\ cost = "Unknown"
        /\ start = s
        /\ mortgages = load_mortgages(file)
        /\ end = NoDate
        /\ duration = "N/A"
        /\ pc = "created"
        /\ cursor = NoDate
        /\ m = mortgage(0, 0, 0, 0, 0, Num(0))
        /\ balance = 0 /\ interests = 0 /\ repayments = 0 /\ downpayment = 0
        /\ dates = <<>> /\ date = NoDate
        /\ config = file
        /\ invoked = <<>>
        /\ afters = <<>>
        /\ seenPaid = FALSE
        /\ event = NoEvent
        /\ lastRepaid = NoDate
        /\ periods = 0
        /\ call = NoCall
        /\ ret = NoRet
        /\ steps = 0

\* payoff(), lines 146-159: the local start and the cost are set.
PayoffBegin ==
    /\ pc = "created"
    /\ pc' = "loop"
    /\ cursor' = start
    /\ cost' = 0
    /\ UNCHANGED <<amount, outstanding, start, mortgages, end, duration,
                   m, repayVars, histVars>>

\* The while loop finds mortgages left: pop the first and enter its repay(),
\* up to the for loop (start and amount bound, downpayment taken).
NextMortgage ==
    /\ pc = "loop"
    /\ mortgages # <<>>
    /\ LET self == [pop_mortgage(mortgages) EXCEPT
                        !.start = cursor, !.amount = outstanding]
           dp   == calculate_downpayment(self, outstanding)
       IN  /\ m' = self
           /\ mortgages' = SelectSeq(mortgages, LAMBDA x : x.id # self.id)
           /\ interests' = 0
           /\ repayments' = 0
           /\ downpayment' = dp
           /\ balance' = apply_downpayment(outstanding, dp)
           /\ dates' = repayment_duration(self)
           /\ date' = NoDate
           /\ invoked' = Append(invoked, self.id)
           /\ call' = [id |-> self.id, outstanding |-> outstanding,
                       start |-> cursor,
                       entered |-> apply_downpayment(outstanding, dp)]
           /\ steps' = steps + 1
    /\ pc' = "repaying"
    /\ event' = NoEvent
    /\ lastRepaid' = NoDate
    /\ periods' = 0
    /\ UNCHANGED <<amount, outstanding, cost, start, end, duration, cursor,
                   config, afters, seenPaid, ret>>

\* One iteration of repay()'s for loop: interest is added; with a balance
\* above zero the repayment is taken, otherwise the loop is left.
RepayPeriod ==
    /\ pc = "repaying"
    /\ dates # <<>>
    /\ LET current  == Head(dates)
           interest == calculate_interest(m, balance)
           owed     == FAdd(balance, interest)
           nominal  == nominal_repayment(m, owed)
           left     == FSub(owed, nominal)
           lump     == IF m.overpay # 0
                       THEN calculate_overpay(m, current, left) ELSE 0
           repayment == calculate_repayment(m, current, owed)
       IN  /\ date' = current
           /\ dates' = Tail(dates)
           /\ interests' = FAdd(interests, interest)
           /\ periods' = periods + 1
           /\ steps' = steps + 1
           /\ IF owed > 0
              THEN /\ repayments' = FAdd(repayments, repayment)
                   /\ balance' = FSub(owed, repayment)
                   /\ lastRepaid' = current
                   /\ event' = [date |-> current, lump |-> lump,
                                remaining |-> left, before |-> balance,
                                after |-> FSub(owed, repayment)]
                   /\ pc' = "repaying"
              ELSE /\ balance' = owed
                   /\ pc' = "broke"
                   /\ UNCHANGED <<repayments, lastRepaid, event>>
    /\ UNCHANGED <<loanVars, cursor, m, downpayment, config, invoked, afters,
                   seenPaid, call, ret>>

\* repay() returns (the loop broke or ran out of dates) and payoff() takes
\* the result, lines 175-190.  A loop that never ran leaves date unbound and
\* the return statement raises.
RepayReturn ==
    /\ pc = "broke" \/ (pc = "repaying" /\ dates = <<>>)
    /\ IF date = NoDate
       THEN /\ pc' = "raised"
            /\ UNCHANGED <<loanVars, cursor, histVars>>
       ELSE LET result   == repay_result(interests, repayments, downpayment, date)
                increase == result.interest
                decrease == result.repaid
                current  == result.end
                after    == update_outstanding(outstanding, decrease, increase)
            IN  /\ outstanding' = after
                /\ cost' = update_cost(cost, increase)
                /\ end' = current
                /\ duration' = RelativeDelta(current, start)
                /\ ret' = [id |-> m.id, interest |-> increase,
                           repaid |-> decrease, end |-> current,
                           balance |-> balance, lastRepaid |-> lastRepaid,
                           periods |-> periods, broke |-> (pc = "broke"),
                           before |-> outstanding]
                /\ afters' = Append(afters, after)
                /\ steps' = steps + 1
                /\ seenPaid' = stop_repaying(after)
                /\ IF stop_repaying(after)
                   THEN pc' = "done" /\ cursor' = cursor
                   ELSE pc' = "loop" /\ cursor' = next_start(cursor, current)
                /\ UNCHANGED <<amount, start, mortgages, config, invoked,
                               event, lastRepaid, periods, call>>
    /\ UNCHANGED <<m, repayVars>>

\* The while loop finds no mortgage left: payoff() returns.
PayoffEnd ==
    /\ pc = "loop"
    /\ mortgages = <<>>
    /\ pc' = "done"
    /\ UNCHANGED <<loanVars, cursor, m, repayVars, histVars>>

Next == PayoffBegin \/ NextMortgage \/ RepayPeriod \/ RepayReturn \/ PayoffEnd

Spec == Init /\ [][Next]_vars

\* ----------------------------------------------------------------- claims
Returned == ret.id # 0

\* The mortgage repay() is running on, or last ran on, as the file gave it.
Given(id) == config[id]

\* C1: the instruments payoff() invokes repay() on are a prefix of the
\* configured list, in its order and each once; after every invoked
\* instrument but the last loan.outstanding was above zero, and payoff() ends
\* after the first instrument that leaves loan.outstanding <= 0 (paid off) or
\* at the end of the list (exhausted); none is invoked once outstanding <= 0
\* has been seen.
C1_InvokedPrefix ==
    /\ Len(invoked) <= Len(config)
    /\ \A i \in 1..Len(invoked) : invoked[i] = i
    /\ \A i \in 1..Len(afters) : i < Len(invoked) => afters[i] > 0
    /\ \A i \in 1..Len(mortgages) : mortgages[i].id = Len(invoked) + i
    /\ pc = "done" =>
          /\ Len(afters) = Len(invoked)
          /\ \/ afters[Len(afters)] <= 0
             \/ Len(invoked) = Len(config)
    /\ seenPaid => pc = "done" /\ afters[Len(afters)] <= 0

\* C1's case: payoff() has ended paid off with an instrument never invoked.
C1_Witness ==
    /\ pc = "done"
    /\ outstanding <= 0
    /\ Len(invoked) < Len(config)
    /\ mortgages # <<>>

\* C2: after an instrument completes, payoff()'s update leaves
\* loan.outstanding equal to the balance repay() tracked itself when its loop
\* ended.
C2_Reconciles == Returned => outstanding = ret.balance

\* C3: an instrument that follows another is invoked with start equal to the
\* end date the previous repay() returned and with outstanding equal to the
\* loan balance net of what the previous repay() returned as repaid and
\* interest; repay() binds both to the mortgage.
C3_HandOver ==
    (Returned /\ call.id = ret.id + 1) =>
        /\ call.start = ret.end
        /\ call.outstanding = FSub(ret.before, FSub(ret.repaid, ret.interest))
        /\ m.start = ret.end
        /\ m.amount = call.outstanding
        /\ call.outstanding = afters[ret.id]

\* C3's case: the previous instrument ran through its whole term (its loop
\* was not left early) with the loan still owing, and the next one is running.
C3_Witness ==
    /\ Returned
    /\ call.id = ret.id + 1
    /\ ~ret.broke
    /\ ret.periods = MonthsPerYear * Given(ret.id).years
    /\ afters[ret.id] > 0
    /\ pc = "repaying"
    /\ periods > 0
    /\ call.start # start

\* C4: the end date repay() returns, and so loan.end, is the date of the last
\* period in which a repayment was made.
C4_EndIsLastRepayment == Returned => (ret.end = ret.lastRepaid /\ end = ret.lastRepaid)

\* A single instrument with a repayment above zero whose first-period
\* interest on its starting balance is below that repayment has returned.
C5_Case ==
    /\ Returned
    /\ Len(config) = 1
    /\ m.repayment > 0
    /\ calculate_interest(m, call.entered) < m.repayment

\* C5 as stated: in that case repay() reaches outstanding <= 0 within the
\* instrument's term.
C5_PaidWithinTerm == C5_Case => ret.balance <= 0

\* C5 as amended: in that case repay() ends within 12 x term_years periods,
\* either with outstanding <= 0 or, the term's dates all taken, with the
\* balance still above zero.
C5_EndsWithinTerm ==
    C5_Case =>
        /\ ret.periods <= MonthsPerYear * m.duration
        /\ \/ ret.balance <= 0
           \/ /\ ~ret.broke
              /\ ret.periods = Len(repayment_duration(m))
              /\ ret.end = repayment_duration(m)[ret.periods]
              /\ ~DateLT(AddYears(m.start, m.duration), ret.end)

\* C5's case, both ways: the term ran out with the balance above zero, after
\* all twelve periods of a year.
C5_Witness ==
    /\ C5_Case
    /\ ret.balance > 0
    /\ ret.periods = MonthsPerYear * m.duration

PaysIn(e) ==
    /\ e.rate >= 0
    /\ e.repayment > 0
    /\ (e.downpayment # <<>> => e.downpayment[1].val >= 0)
    /\ FMul(amount, FDiv(sanitize_percent(Pct(e.rate)), ToFloat(MonthsPerYear)))
          <= FromDecimal(e.repayment)

C7_InterestNonNegative ==
    (\A i \in 1..Len(config) : config[i].rate >= 0) =>
        /\ pc # "created" => cost >= 0
        /\ Returned => ret.interest >= 0

\* C8: a lump is part of a period's repayment only on a date n whole years
\* after the instrument's bound start, 1 <= n <= term_years - 1, and is never
\* more than the balance the nominal repayment of that period leaves, which
\* the lump therefore does not take below zero.
C8_OverpayNeverBelowZero ==
    event.lump # 0 =>
        /\ \E n \in 1..(m.duration - 1) : event.date = AddYears(m.start, n)
        /\ event.lump <= event.remaining
        /\ event.after >= 0

\* The parts of C8 the code keeps: a lump is paid only on a date n whole
\* years after the bound start, 1 <= n <= term_years - 1, and is above zero
\* and at most the balance the nominal repayment leaves.
OverpayOnAnniversariesCapped ==
    event.lump # 0 =>
        /\ \E n \in 1..(m.duration - 1) : event.date = AddYears(m.start, n)
        /\ event.lump > 0
        /\ event.lump <= event.remaining

\* The signed downpayment an entry asks for on a balance: nothing when it
\* names none, its number, or its percentage of that balance; minus for a
\* release of capital.
SignedDownpayment(e, owed) ==
    IF e.downpayment = <<>> THEN 0
    ELSE LET d == e.downpayment[1]
         IN  IF d.pct
             THEN IF d.val < 0
                  THEN -FMul(FDiv(ToFloat(-d.val), ToFloat(PercentBase)), owed)
                  ELSE FMul(FDiv(ToFloat(d.val), ToFloat(PercentBase)), owed)
             ELSE ToFloat(d.val)

\* C9: the balance before the first interest accrual is the outstanding
\* passed to repay() minus the signed downpayment (a percentage is taken of
\* the outstanding before the downpayment; a negative downpayment raises the
\* balance), and the repaid total repay() returns includes that downpayment.
C9_DownpaymentApplied ==
    /\ call.id # 0 =>
          LET d == SignedDownpayment(Given(call.id), call.outstanding)
          IN  /\ call.entered = FSub(call.outstanding, d)
              /\ downpayment = d
              /\ periods = 0 => balance = call.entered
              /\ d < 0 => call.entered > call.outstanding
    /\ (Returned /\ ret.id = call.id) =>
          ret.repaid =
              FAdd(repayments, SignedDownpayment(Given(ret.id), call.outstanding))

\* C9's case: a percent downpayment that releases capital has been applied
\* to a balance and its repay() has returned.
C9_Witness ==
    /\ Returned
    /\ ret.id = call.id
    /\ Given(ret.id).downpayment = <<Pct(-10)>>
    /\ call.entered > call.outstanding
    /\ call.outstanding > 0
    /\ ret.repaid # repayments

\* C10: a loan whose list holds a malformed instrument (term <= 0, negative
\* repayment, rate below zero) takes no simulation step and raises nothing in
\* the middle of payoff().
C10_MalformedNeverRuns ==
    (\E i \in 1..Len(config) : Malformed(config[i])) =>
        (steps = 0 /\ pc # "raised")

====
